---- MODULE Spec2Model ----
(***************************************************************************)
(* Stock reallocation: the upload handler of app.py (Flask) and the        *)
(* process_data / create_excel_report pair of streamlit_app.py.            *)
(*                                                                         *)
(* One run is modelled as a sequence of steps over one input table:        *)
(*   Normalize, DeriveDemand, then per group StartGroup and one MatchPair  *)
(*   per (source, destination) pair, then Deliver.                         *)
(* The two programs share the pipeline; `variant` says which one runs.     *)
(*                                                                         *)
(* Representation choices:                                                 *)
(*  - a raw numeric cell is [kind, x10]: kind "num" carries the value in   *)
(*    tenths (x10 = 15 is 1.5), kind "nan" is an empty cell, kind "text"   *)
(*    a string pd.to_numeric cannot parse;                                 *)
(*  - an empty string cell is the string NaNStr;                           *)
(*  - Notes is the sequence of the flags appended to the empty string;     *)
(*  - Transferable Qty and Needed Qty are kept in fifths (CapDen = 5), so  *)
(*    that x * 0.2 of app.py is exact; IEEE rounding of the float          *)
(*    arithmetic is not modelled.                                          *)
(***************************************************************************)
EXTENDS Integers, Sequences, FiniteSets, TLC

VARIABLES
    variant,          \* "flask" (app.py) or "streamlit" (streamlit_app.py)
    raw,              \* the table pd.read_excel returned
    df,               \* the working DataFrame
    df2,              \* the Normalizer applied to its own output
    pc,               \* position in the pipeline
    keys,             \* (Article, OM) groups still to iterate
    group,            \* row indices of the group being matched
    sources,          \* the group's source records, with their counters
    dests,            \* the group's destination records, with their counters
    si,               \* outer loop position (for s in sources)
    di,               \* inner loop position (for d in dests)
    recommendations,  \* the list the matcher appends to
    rec_df,           \* the recommendation table after the final filter
    summary,          \* the aggregates written to the dashboard sheet
    outcome           \* what the run returned to the user

vars == <<variant, raw, df, df2, pc, keys, group, sources, dests, si, di,
          recommendations, rec_df, summary, outcome>>

-----------------------------------------------------------------------------
(* Bounds of the enumerated inputs *)

MaxStock == 1
MaxSafety == 2
BigPending == 4
TopSold == 2

(* Program constants *)

SoldLimit == 100000
CapDen == 5

NaNStr == "NaN"
NoteOutOfRange == "sales value out of range "

Variants == {"flask", "streamlit"}

-----------------------------------------------------------------------------
(* Raw cells *)

Num(n) == [kind |-> "num", x10 |-> 10 * n]
Frac(t) == [kind |-> "num", x10 |-> t]
NaNCell == [kind |-> "nan", x10 |-> 0]
TextCell == [kind |-> "text", x10 |-> 0]

Min(a, b) == IF a < b THEN a ELSE b

\* astype(int): truncation toward zero of a value given in tenths
AsTypeInt(x10) == IF x10 >= 0 THEN x10 \div 10 ELSE -((-x10) \div 10)

\* pd.to_numeric(col, errors='coerce').fillna(0).astype(int), on one cell
ToInteger(c) == IF c.kind = "num" THEN AsTypeInt(c.x10) ELSE 0

\* col.fillna(''), on one cell
FillNaStr(s) == IF s = NaNStr THEN "" ELSE s

\* faulty variant: the negative sold quantities are not reset to 0
ClampSold_NoFloor(v) == IF v > SoldLimit THEN SoldLimit ELSE v

\* df.loc[df[col] < 0, col] = 0 ; df.loc[df[col] > 100000, col] = 100000
ClampSold(v) == IF v < 0 THEN 0 ELSE IF v > SoldLimit THEN SoldLimit ELSE v

\* faulty variant: the limit itself counts as out of range
SoldNote_Inclusive(v) == IF v >= SoldLimit THEN <<NoteOutOfRange>> ELSE <<>>

\* df.loc[out_of_range, 'Notes'] += flag, for one sold column
SoldNote(v) == IF v > SoldLimit THEN <<NoteOutOfRange>> ELSE <<>>

NormalizeRow(r) ==
    LET lm == ToInteger(r.LastMonthSoldQty)
        mtd == ToInteger(r.MTDSoldQty)
    IN  [Article |-> r.Article,  \* read as str, never empty in the tables here
         OM |-> FillNaStr(r.OM),
         RPType |-> FillNaStr(r.RPType),
         Site |-> FillNaStr(r.Site),
         SaSaNetStock |-> ToInteger(r.SaSaNetStock),
         PendingReceived |-> ToInteger(r.PendingReceived),
         SafetyStock |-> ToInteger(r.SafetyStock),
         LastMonthSoldQty |-> ClampSold(lm),
         MTDSoldQty |-> ClampSold(mtd),
         Notes |-> SoldNote(lm) \o SoldNote(mtd)]

Normalizer(t) == [i \in 1..Len(t) |-> NormalizeRow(t[i])]

\* A normalized table read as an input table again (integers are numbers,
\* strings are strings; the Notes column is overwritten by the Normalizer)
AsInput(t) ==
    [i \in 1..Len(t) |->
        [Article |-> t[i].Article, OM |-> t[i].OM, RPType |-> t[i].RPType,
         Site |-> t[i].Site,
         SaSaNetStock |-> Num(t[i].SaSaNetStock),
         PendingReceived |-> Num(t[i].PendingReceived),
         SafetyStock |-> Num(t[i].SafetyStock),
         LastMonthSoldQty |-> Num(t[i].LastMonthSoldQty),
         MTDSoldQty |-> Num(t[i].MTDSoldQty)]]

\* np.where(LastMonth > 0, LastMonth, MTD)
EffectiveSoldQty(r) ==
    IF r.LastMonthSoldQty > 0 THEN r.LastMonthSoldQty ELSE r.MTDSoldQty

WithDemand(t) ==
    [i \in 1..Len(t) |-> t[i] @@ [EffectiveSoldQty |-> EffectiveSoldQty(t[i])]]

-----------------------------------------------------------------------------
(* df.groupby(['Article', 'OM']): groups in ascending key order, rows in   *)
(* table order                                                             *)

ArticleOrder == <<"a1", "a2">>
OMOrder == <<"o1", "o2">>

KeyOrder ==
    [k \in 1..(Len(ArticleOrder) * Len(OMOrder)) |->
        <<ArticleOrder[((k - 1) \div Len(OMOrder)) + 1],
          OMOrder[((k - 1) % Len(OMOrder)) + 1]>>]

InGroup(t, i, k) == t[i].Article = k[1] /\ t[i].OM = k[2]

GroupKeys(t) ==
    SelectSeq(KeyOrder, LAMBDA k : \E i \in 1..Len(t) : InGroup(t, i, k))

GroupOf(t, k) ==
    SelectSeq([i \in 1..Len(t) |-> i], LAMBDA i : InGroup(t, i, k))

RECURSIVE MaxOver(_, _)
\* group['Effective Sold Qty'].max()
MaxOver(t, g) ==
    IF Len(g) = 1 THEN t[g[1]].EffectiveSoldQty
    ELSE LET m == MaxOver(t, Tail(g))
         IN  IF t[g[1]].EffectiveSoldQty > m THEN t[g[1]].EffectiveSoldQty ELSE m

-----------------------------------------------------------------------------
(* Candidate classification. A candidate is the dict record of its row    *)
(* (kept as the row index and the Site) with its counter, in fifths, and   *)
(* its Priority.                                                           *)

OnHand(r) == r.SaSaNetStock + r.PendingReceived

\* Priority 1: ND
NdSources(t, g) ==
    LET rows == SelectSeq(g, LAMBDA i : t[i].RPType = "ND")
    IN  [j \in 1..Len(rows) |->
            [row |-> rows[j], Site |-> t[rows[j]].Site,
             TransferableQty |-> CapDen * t[rows[j]].SaSaNetStock,
             Priority |-> 1]]

\* group[(RP Type == 'RF') & (Net Stock + Pending > Safety Stock)]
RfSurplusRows(t, g) ==
    SelectSeq(g, LAMBDA i : t[i].RPType = "RF" /\ OnHand(t[i]) > t[i].SafetyStock)

\* faulty variant: the top seller is kept among the RF surplus sources
BelowTopSeller_Inclusive(t, g, i) == t[i].EffectiveSoldQty <= MaxOver(t, g)

\* rf_sources[rf_sources['Effective Sold Qty'] < max_effective_sold]
BelowTopSeller(t, g, i) == t[i].EffectiveSoldQty < MaxOver(t, g)

\* app.py: np.minimum(surplus_qty, (net + pending) * 0.2), in fifths
CappedTransferable(r) ==
    LET surplus_qty == OnHand(r) - r.SafetyStock
        transfer_limit == OnHand(r)
    IN  Min(CapDen * surplus_qty, transfer_limit)

\* streamlit_app.py: net + pending - safety, in fifths
SurplusTransferable(r) == CapDen * (OnHand(r) - r.SafetyStock)

\* Transferable Qty of an RF surplus row
RfTransferable(v, r) ==
    IF v = "flask" THEN CappedTransferable(r) ELSE SurplusTransferable(r)

\* Priority 2: RF surplus
RfSources(v, t, g) ==
    LET rows == SelectSeq(RfSurplusRows(t, g), LAMBDA i : BelowTopSeller(t, g, i))
    IN  [j \in 1..Len(rows) |->
            [row |-> rows[j], Site |-> t[rows[j]].Site,
             TransferableQty |-> RfTransferable(v, t[rows[j]]),
             Priority |-> 2]]

IsUrgent(r) ==
    r.RPType = "RF" /\ r.SaSaNetStock = 0 /\ r.EffectiveSoldQty > 0

\* Priority 1: urgent shortage
UrgentDest(t, g) ==
    LET rows == SelectSeq(g, LAMBDA i : IsUrgent(t[i]))
    IN  [j \in 1..Len(rows) |->
            [row |-> rows[j], Site |-> t[rows[j]].Site,
             NeededQty |-> CapDen * t[rows[j]].SafetyStock,
             Priority |-> 1]]

\* potential_dest[potential_dest['Effective Sold Qty'] == max_effective_sold]
IsTopSeller(t, g, i) == t[i].EffectiveSoldQty = MaxOver(t, g)

\* Priority 2: potential shortage, urgent rows removed, top sellers only
PotentialDest(t, g) ==
    LET below == SelectSeq(g, LAMBDA i : t[i].RPType = "RF"
                                         /\ OnHand(t[i]) < t[i].SafetyStock)
        notUrgent == SelectSeq(below, LAMBDA i : ~IsUrgent(t[i]))
        rows == SelectSeq(notUrgent, LAMBDA i : IsTopSeller(t, g, i))
    IN  [j \in 1..Len(rows) |->
            [row |-> rows[j], Site |-> t[rows[j]].Site,
             NeededQty |-> CapDen * (t[rows[j]].SafetyStock - OnHand(t[rows[j]])),
             Priority |-> 2]]

\* faulty variant: the candidates are sorted by descending Priority
SortByPriority_Descending(c) ==
    SelectSeq(c, LAMBDA x : x.Priority = 2) \o SelectSeq(c, LAMBDA x : x.Priority = 1)

\* sort_values(by='Priority') of a short frame with priorities 1 and 2
\* (the sort is an insertion sort below 17 rows: ties keep their order)
SortByPriority(c) ==
    SelectSeq(c, LAMBDA x : x.Priority = 1) \o SelectSeq(c, LAMBDA x : x.Priority = 2)

\* pd.concat(source_candidates).sort_values(by='Priority').to_dict('records')
Sources(v, t, g) == SortByPriority(NdSources(t, g) \o RfSources(v, t, g))

\* pd.concat(destination_candidates).sort_values(by='Priority').to_dict('records')
Dests(t, g) == SortByPriority(UrgentDest(t, g) \o PotentialDest(t, g))

-----------------------------------------------------------------------------
(* Greedy matching of one (source, destination) pair                       *)

\* group.loc[group['Site'] == s['Site'], 'SaSa Net Stock'].iloc[0]
OriginalStock(t, g, site) ==
    t[SelectSeq(g, LAMBDA i : t[i].Site = site)[1]].SaSaNetStock

\* the guard of the match
Matches(s, d) ==
    s.TransferableQty > 0 /\ d.NeededQty > 0 /\ s.Site # d.Site

\* faulty variant: the quantity is not capped to the original stock
TransferQty_NoCap(t, g, s, d) == Min(s.TransferableQty, d.NeededQty)

\* min(Transferable, Needed), capped to the source's original stock (fifths)
TransferQty(t, g, s, d) ==
    LET q == Min(s.TransferableQty, d.NeededQty)
        original_stock == CapDen * OriginalStock(t, g, s.Site)
    IN  IF q > original_stock THEN original_stock ELSE q

\* int(transfer_qty) of a positive quantity given in fifths
IntQty(q) == q \div CapDen

\* faulty variant: the counters are not decremented
Decrement_Forgotten(counter, q) == counter

\* s['Transferable Qty'] -= transfer_qty ; d['Needed Qty'] -= transfer_qty
Decrement(counter, q) == counter - q

Recommendation(t, s, d, q) ==
    [Article |-> t[s.row].Article,
     OM |-> t[s.row].OM,
     TransferSite |-> s.Site,
     ReceiveSite |-> d.Site,
     TransferQty |-> IntQty(q),
     Notes |-> t[s.row].Notes]

-----------------------------------------------------------------------------
(* Final filter, aggregation and the outcome of the run                    *)

\* rec_df[rec_df['Transfer Qty'] > 0], then [Transfer Site != Receive Site]
FinalFilter(recs) ==
    SelectSeq(SelectSeq(recs, LAMBDA r : r.TransferQty > 0),
              LAMBDA r : r.TransferSite # r.ReceiveSite)

RECURSIVE SumQty(_)
\* column 'Transfer Qty' summed
SumQty(rows) ==
    IF rows = <<>> THEN 0 ELSE Head(rows).TransferQty + SumQty(Tail(rows))

\* rec_df.groupby('Article'): sum of Transfer Qty, nunique of OM
ArticleSummary(recs) ==
    [a \in {recs[i].Article : i \in 1..Len(recs)} |->
        LET rows == SelectSeq(recs, LAMBDA r : r.Article = a)
        IN  [total_transfer_qty_per_article |-> SumQty(rows),
             om_count |-> Cardinality({rows[i].OM : i \in 1..Len(rows)})]]

\* rec_df.groupby('OM'): sum of Transfer Qty, nunique of Article
OMSummary(recs) ==
    [o \in {recs[i].OM : i \in 1..Len(recs)} |->
        LET rows == SelectSeq(recs, LAMBDA r : r.OM = o)
        IN  [total_transfer_qty_per_om |-> SumQty(rows),
             article_count |-> Cardinality({rows[i].Article : i \in 1..Len(rows)})]]

\* the frame whose ['Site', 'RP Type'] the recommendations are merged with:
\* app.py passes the normalized df, streamlit_app.py a copy of the table read
LookupTable(v, read, frame) == IF v = "flask" THEN frame ELSE read

RECURSIVE Merged(_, _)
\* rec_df.merge(df[['Site', 'RP Type']], left_on='Transfer Site',
\*              right_on='Site', how='left'): one row per matching row of df
Merged(recs, look) ==
    IF recs = <<>> THEN <<>>
    ELSE LET r == Head(recs)
             hit == SelectSeq([i \in 1..Len(look) |-> i],
                              LAMBDA i : look[i].Site = r.TransferSite)
             out == IF hit = <<>>
                    THEN <<[TransferQty |-> r.TransferQty, RPType |-> NaNStr]>>
                    ELSE [j \in 1..Len(hit) |->
                            [TransferQty |-> r.TransferQty,
                             RPType |-> look[hit[j]].RPType]]
         IN  out \o Merged(Tail(recs), look)

\* rec_df_merged.groupby('RP Type'): size, sum of Transfer Qty (NaN keys drop)
TransferTypeSummary(merged) ==
    [ty \in {merged[i].RPType : i \in 1..Len(merged)} \ {NaNStr} |->
        LET rows == SelectSeq(merged, LAMBDA m : m.RPType = ty)
        IN  [recommendation_count |-> Len(rows), total_qty |-> SumQty(rows)]]

NoSummary ==
    [total_recommendations |-> 0, total_transfer_qty |-> 0,
     article_summary |-> <<>>, om_summary |-> <<>>,
     transfer_type_summary |-> <<>>]

Aggregate(recs, look) ==
    [total_recommendations |-> Len(recs),
     total_transfer_qty |-> SumQty(recs),
     article_summary |-> ArticleSummary(recs),
     om_summary |-> OMSummary(recs),
     transfer_type_summary |-> TransferTypeSummary(Merged(recs, look))]

\* app.py: `if recommendations:` builds and sends the report, whatever the
\* filter left; otherwise "No recommendations generated."
FlaskOutcome(recs) ==
    IF recs # <<>> THEN "report" ELSE "no_recommendations"

\* streamlit_app.py: a warning for an empty list; create_excel_report returns
\* None for an empty filtered table, which is a second warning
StreamlitOutcome(recs, filtered) ==
    IF recs = <<>> THEN "no_recommendations"
    ELSE IF filtered = <<>> THEN "empty_report_warning"
    ELSE "report"

Outcome(v, recs, filtered) ==
    IF v = "flask" THEN FlaskOutcome(recs) ELSE StreamlitOutcome(recs, filtered)

-----------------------------------------------------------------------------
(* Input tables *)

Row(a, o, site, rp, n, p, s, lm, mtd) ==
    [Article |-> a, OM |-> o, Site |-> site, RPType |-> rp,
     SaSaNetStock |-> Num(n), PendingReceived |-> Num(p),
     SafetyStock |-> Num(s), LastMonthSoldQty |-> Num(lm),
     MTDSoldQty |-> Num(mtd)]

\* nothing on order, or an order larger than the stock on hand
PendingValues == {0, BigPending}

\* sales of an RF row, reported in Last Month Sold Qty
RfSoldValues == {0, 1}

\* sales of an ND row, reported in MTD Sold Qty: none, or more than any RF row
NdSoldValues == {0, TopSold}

\* ND rows: only Net Stock and the sales are read
NdRows(a, o, site) ==
    {Row(a, o, site, "ND", n, 0, 0, 0, sold) :
        n \in 0..MaxStock, sold \in NdSoldValues}

RfRows(a, o, site) ==
    {Row(a, o, site, "RF", n, p, s, sold, 0) :
        n \in 0..MaxStock, p \in PendingValues, s \in 0..MaxSafety,
        sold \in RfSoldValues}

RowsAt(a, o, site) == NdRows(a, o, site) \cup RfRows(a, o, site)

\* one group of three sites
MatchTables ==
    {<<r1, r2, r3>> : r1 \in RowsAt("a1", "o1", "A"),
                      r2 \in RowsAt("a1", "o1", "B"),
                      r3 \in RowsAt("a1", "o1", "C")}

\* Site is unique within an (Article, OM) group
UniqueSites(t) ==
    \A i, j \in 1..Len(t) :
        (i # j /\ t[i].Article = t[j].Article /\ t[i].OM = t[j].OM)
            => t[i].Site # t[j].Site

\* rows of several groups: a supplier, an empty supplier that sells most, an
\* urgent destination, an RF surplus row and a row without RP Type, under
\* any key and one of two sites
KeyedRows ==
    UNION {{Row(k[1], k[2], site, "ND", 1, 0, 0, 0, 0),
            Row(k[1], k[2], site, "ND", 0, 0, 0, 0, TopSold),
            Row(k[1], k[2], site, "RF", 0, 0, 1, 1, 0),
            Row(k[1], k[2], site, "RF", 1, BigPending, 0, 0, 0),
            Row(k[1], k[2], site, NaNStr, 1, 0, 0, 1, 0)} :
                k \in {KeyOrder[i] : i \in 1..Len(KeyOrder)}, site \in {"A", "B"}}

GroupedTables ==
    {t \in {<<r1, r2, r3>> : r1 \in KeyedRows, r2 \in KeyedRows, r3 \in KeyedRows} :
        UniqueSites(t)}

-----------------------------------------------------------------------------
(* The run *)

Idle ==
    /\ df = <<>> /\ df2 = <<>> /\ pc = "start"
    /\ keys = <<>> /\ group = <<>> /\ sources = <<>> /\ dests = <<>>
    /\ si = 1 /\ di = 1
    /\ recommendations = <<>> /\ rec_df = <<>>
    /\ summary = NoSummary /\ outcome = "running"

Init ==
    /\ variant \in Variants
    /\ raw \in MatchTables \cup GroupedTables
    /\ Idle

\* lines 31-48 of app.py, 9-26 of streamlit_app.py
Normalize ==
    /\ pc = "start"
    /\ df' = Normalizer(raw)
    /\ pc' = "normalized"
    /\ UNCHANGED <<variant, raw, df2, keys, group, sources, dests, si, di,
                   recommendations, rec_df, summary, outcome>>

\* df['Effective Sold Qty'] = np.where(...), and the groupby that follows
DeriveDemand ==
    /\ pc = "normalized"
    /\ df' = WithDemand(df)
    /\ keys' = GroupKeys(df)
    /\ pc' = "matching"
    /\ UNCHANGED <<variant, raw, df2, group, sources, dests, si, di,
                   recommendations, rec_df, summary, outcome>>

\* both loops of the current group are over
LoopDone == si > Len(sources) \/ dests = <<>>

\* the body of `for article_om, group in df.groupby(...)` up to the loops
StartGroup ==
    /\ pc = "matching" /\ LoopDone /\ keys # <<>>
    /\ LET g == GroupOf(df, Head(keys))
       IN  /\ group' = g
           /\ sources' = Sources(variant, df, g)
           /\ dests' = Dests(df, g)
    /\ keys' = Tail(keys)
    /\ si' = 1 /\ di' = 1
    /\ UNCHANGED <<variant, raw, df, df2, pc, recommendations, rec_df,
                   summary, outcome>>

\* one pass of the inner loop body, for s = sources[si] and d = dests[di]
MatchPair ==
    /\ pc = "matching" /\ ~LoopDone
    /\ LET s == sources[si]
           d == dests[di]
           q == TransferQty(df, group, s, d)
           emit == Matches(s, d) /\ q > 0
       IN  /\ recommendations' =
                IF emit THEN Append(recommendations, Recommendation(df, s, d, q))
                ELSE recommendations
           /\ sources' =
                IF emit THEN [sources EXCEPT ![si].TransferableQty = Decrement(@, q)]
                ELSE sources
           /\ dests' =
                IF emit THEN [dests EXCEPT ![di].NeededQty = Decrement(@, q)]
                ELSE dests
    /\ si' = IF di < Len(dests) THEN si ELSE si + 1
    /\ di' = IF di < Len(dests) THEN di + 1 ELSE 1
    /\ UNCHANGED <<variant, raw, df, df2, pc, keys, group, rec_df, summary,
                   outcome>>

\* the final filter, the summaries and the response
Deliver ==
    /\ pc = "matching" /\ LoopDone /\ keys = <<>>
    /\ LET filtered == FinalFilter(recommendations)
           result == Outcome(variant, recommendations, filtered)
       IN  /\ rec_df' = filtered
           /\ outcome' = result
           /\ summary' = IF result = "report"
                         THEN Aggregate(filtered, LookupTable(variant, raw, df))
                         ELSE NoSummary
    /\ pc' = "done"
    /\ UNCHANGED <<variant, raw, df, df2, keys, group, sources, dests, si, di,
                   recommendations>>

Next == Normalize \/ DeriveDemand \/ StartGroup \/ MatchPair \/ Deliver

Spec == Init /\ [][Next]_vars

-----------------------------------------------------------------------------
(* The Normalizer alone, on cells of every kind, and applied twice         *)

StockCells ==
    {NaNCell, TextCell, Num(-2), Frac(-15), Frac(-5), Num(0), Frac(15), Num(3)}

OtherStockCells == {NaNCell, Num(-1), Num(2)}

SoldCells ==
    {NaNCell, Num(-1), Frac(25), Num(SoldLimit), Num(SoldLimit + 1),
     Frac(10 * SoldLimit + 5)}

NormTables ==
    {<<[Article |-> "a1", OM |-> o, Site |-> site, RPType |-> rp,
        SaSaNetStock |-> n, PendingReceived |-> p, SafetyStock |-> s,
        LastMonthSoldQty |-> lm, MTDSoldQty |-> mtd]>> :
        o \in {"o1", NaNStr}, site \in {"A", NaNStr}, rp \in {"RF", NaNStr},
        n \in StockCells, p \in OtherStockCells, s \in OtherStockCells,
        lm \in SoldCells, mtd \in SoldCells}

InitNorm ==
    /\ variant \in Variants
    /\ raw \in NormTables
    /\ Idle

\* the Normalizer run on its own output
NormalizeAgain ==
    /\ pc = "normalized"
    /\ df2' = Normalizer(AsInput(df))
    /\ pc' = "renormalized"
    /\ UNCHANGED <<variant, raw, df, keys, group, sources, dests, si, di,
                   recommendations, rec_df, summary, outcome>>

NextNorm == Normalize \/ NormalizeAgain

SpecNorm == InitNorm /\ [][NextNorm]_vars

-----------------------------------------------------------------------------
(* Vocabulary of the properties                                            *)

Matched == pc \in {"matching", "done"}

\* the row of df a recommendation's site names: the first row of the
\* recommendation's group carrying that Site
RowAt(r, site) ==
    SelectSeq(GroupOf(df, <<r.Article, r.OM>>), LAMBDA i : df[i].Site = site)[1]

SrcRow(r) == RowAt(r, r.TransferSite)
DstRow(r) == RowAt(r, r.ReceiveSite)

RecGroup(r) == GroupOf(df, <<r.Article, r.OM>>)

\* the recommendations of group k leaving (arriving at) a site
SentFrom(recs, k, site) ==
    SelectSeq(recs, LAMBDA r : r.Article = k[1] /\ r.OM = k[2]
                               /\ r.TransferSite = site)

ReceivedAt(recs, k, site) ==
    SelectSeq(recs, LAMBDA r : r.Article = k[1] /\ r.OM = k[2]
                               /\ r.ReceiveSite = site)

KeysOf(t) == {GroupKeys(t)[i] : i \in 1..Len(GroupKeys(t))}

Range(f) == {f[i] : i \in 1..Len(f)}

RECURSIVE SumField(_, _, _)
SumField(f, S, field) ==
    IF S = {} THEN 0
    ELSE LET x == CHOOSE y \in S : TRUE
         IN  f[x][field] + SumField(f, S \ {x}, field)

-----------------------------------------------------------------------------
(* C1: every recommendation of the final table has different sites, a      *)
(* positive quantity, and a quantity no larger than the original SaSa Net  *)
(* Stock of the transfer site's row in its group.                          *)
C1_RecommendationValidity ==
    pc = "done" =>
        \A i \in 1..Len(rec_df) :
            LET r == rec_df[i]
            IN  /\ r.TransferSite # r.ReceiveSite
                /\ r.TransferQty > 0
                /\ r.TransferQty <= df[SrcRow(r)].SaSaNetStock

\* a delivered recommendation from an RF row whose surplus, computed from
\* stock + pending, exceeds its stock, and which moves the whole stock
C1_Witness ==
    /\ pc = "done" /\ outcome = "report"
    /\ \E i \in 1..Len(rec_df) :
        LET r == rec_df[i]
            row == df[SrcRow(r)]
        IN  /\ row.RPType = "RF"
            /\ OnHand(row) - row.SafetyStock > row.SaSaNetStock
            /\ r.TransferQty = row.SaSaNetStock

C4_TopSellerExclusion ==
    Matched =>
        /\ \A x \in 1..Len(sources) :
              sources[x].Priority = 2 =>
                  df[sources[x].row].EffectiveSoldQty < MaxOver(df, group)
        /\ \A x \in 1..Len(dests) :
              dests[x].Priority = 2 =>
                  df[dests[x].row].EffectiveSoldQty = MaxOver(df, group)
        /\ UniqueSites(df) =>
              \A i \in 1..Len(recommendations) :
                  LET r == recommendations[i]
                  IN  /\ ~(df[SrcRow(r)].RPType = "RF"
                           /\ IsTopSeller(df, RecGroup(r), SrcRow(r)))
                      /\ \/ IsUrgent(df[DstRow(r)])
                         \/ IsTopSeller(df, RecGroup(r), DstRow(r))

\* a run that delivered recommendations in a group holding an RF top seller
\* with a surplus and a potential-deficit row that sells less
C4_Witness ==
    /\ pc = "done" /\ rec_df # <<>>
    /\ \E i, j \in 1..Len(df) :
        LET g == GroupOf(df, <<df[i].Article, df[i].OM>>)
        IN  /\ df[j].Article = df[i].Article /\ df[j].OM = df[i].OM
            /\ df[i].RPType = "RF" /\ OnHand(df[i]) > df[i].SafetyStock
            /\ IsTopSeller(df, g, i)
            /\ df[j].RPType = "RF" /\ OnHand(df[j]) < df[j].SafetyStock
            /\ ~IsUrgent(df[j]) /\ ~IsTopSeller(df, g, j)
            /\ \E x \in 1..Len(rec_df) :
                  rec_df[x].Article = df[i].Article /\ rec_df[x].OM = df[i].OM

(* C3: in the per-RP-Type summary every recommendation is counted once,   *)
(* under the RP Type of its transfer source row: the counts add up to the  *)
(* number of recommendations and the quantities to the total quantity.     *)
C3_TypeSummaryCountsOnce ==
    (pc = "done" /\ outcome = "report") =>
        LET ts == summary.transfer_type_summary
        IN  /\ SumField(ts, DOMAIN ts, "recommendation_count")
                  = summary.total_recommendations
            /\ SumField(ts, DOMAIN ts, "total_qty") = summary.total_transfer_qty
            /\ \A ty \in DOMAIN ts :
                  ts[ty].recommendation_count =
                      Len(SelectSeq(rec_df, LAMBDA r : df[SrcRow(r)].RPType = ty))

(* C5: a run whose final recommendation table is empty ends without a      *)
(* report, in a "no recommendations" outcome.                              *)
C5_EmptyResultHasNoReport ==
    (pc = "done" /\ rec_df = <<>>) =>
        outcome \in {"no_recommendations", "empty_report_warning"}

(* C8: the final filter has nothing to remove: every recommendation the    *)
(* matcher appended has a positive stored quantity and different sites.    *)
C8_FilterNeverTriggers ==
    \A i \in 1..Len(recommendations) :
        /\ recommendations[i].TransferQty > 0
        /\ recommendations[i].TransferSite # recommendations[i].ReceiveSite

\* the source priority of a recommendation: 1 from an ND row, 2 from an RF row
SourcePriority(r) == IF df[SrcRow(r)].RPType = "ND" THEN 1 ELSE 2

\* within a group, no Priority-2 recommendation precedes a Priority-1 one
PriorityOrdered ==
    \A i, j \in 1..Len(recommendations) :
        LET a == recommendations[i]
            b == recommendations[j]
        IN  (i < j /\ a.Article = b.Article /\ a.OM = b.OM)
                => SourcePriority(a) <= SourcePriority(b)

\* a step that appends a recommendation from a Priority-2 source is taken
\* with every Priority-1 source of the group exhausted
EmitsFromDrained ==
    (/\ pc = "matching" /\ ~LoopDone
     /\ Len(recommendations') = Len(recommendations) + 1
     /\ sources[si].Priority = 2)
        => \A x \in 1..Len(sources) :
              sources[x].Priority = 1 => sources[x].TransferableQty <= 0

(* C9: in a group with unique sites the recommendations of Priority-1      *)
(* sources all come before those of Priority-2 sources, and whenever a     *)
(* Priority-2 source emits, no Priority-1 source of the group has          *)
(* Transferable Qty left.                                                  *)
C9_SourcePriorityRespected ==
    /\ []((Matched /\ UniqueSites(df)) => PriorityOrdered)
    /\ [][UniqueSites(df) => EmitsFromDrained]_vars

\* a destination served first by an ND source and then, for what was still
\* missing, by an RF surplus source
C9_Witness ==
    /\ Matched
    /\ \E i, j \in 1..Len(recommendations) :
        LET a == recommendations[i]
            b == recommendations[j]
        IN  /\ i < j /\ a.Article = b.Article /\ a.OM = b.OM
            /\ a.ReceiveSite = b.ReceiveSite
            /\ SourcePriority(a) = 1 /\ SourcePriority(b) = 2
            /\ a.TransferQty > 0 /\ b.TransferQty > 0

(* C10: in a group with unique sites, the recommendations leaving one      *)
(* site never add up to more than that site's original SaSa Net Stock.     *)
C10_CumulativeStockBound ==
    (Matched /\ UniqueSites(df)) =>
        \A i \in 1..Len(recommendations) :
            LET r == recommendations[i]
            IN  SumQty(SentFrom(recommendations, <<r.Article, r.OM>>,
                                r.TransferSite))
                    <= df[SrcRow(r)].SaSaNetStock

-----------------------------------------------------------------------------
(* Properties of the Normalizer, under SpecNorm                            *)

Normalized == pc \in {"normalized", "renormalized"}

NumericFields ==
    {"SaSaNetStock", "PendingReceived", "SafetyStock", "LastMonthSoldQty",
     "MTDSoldQty"}

StockFields == {"SaSaNetStock", "PendingReceived", "SafetyStock"}

SoldFields == {"LastMonthSoldQty", "MTDSoldQty"}

StringFields == {"Article", "OM", "RPType", "Site"}

(* C6 as stated: after normalization each of the five numeric fields of    *)
(* every row is a non-negative integer, whatever the raw values were.      *)
C6_AllFieldsNonNegative ==
    Normalized =>
        \A i \in 1..Len(df) : \A f \in NumericFields :
            df[i][f] \in Int /\ df[i][f] >= 0

(* C6 as amended: after normalization every numeric field is an integer;   *)
(* the two sold quantities lie in 0..100000; SaSa Net Stock, Pending       *)
(* Received and Safety Stock are negative exactly when the raw value is a  *)
(* number of -1 or less.                                                   *)
C6_SoldClampedStockKeepsSign ==
    Normalized =>
        \A i \in 1..Len(df) :
            /\ \A f \in NumericFields : df[i][f] \in Int
            /\ \A f \in SoldFields : df[i][f] >= 0 /\ df[i][f] <= SoldLimit
            /\ \A f \in StockFields :
                  (df[i][f] < 0) <=> (raw[i][f].kind = "num" /\ raw[i][f].x10 <= -10)

\* a row read with a negative stock and a negative sold quantity
C6_Witness ==
    /\ pc = "normalized"
    /\ raw[1].SaSaNetStock = Num(-2) /\ df[1].SaSaNetStock = -2
    /\ raw[1].LastMonthSoldQty = Num(-1) /\ df[1].LastMonthSoldQty = 0

(* C7 as stated: the Normalizer applied to its own output returns the same *)
(* table, the Notes flags included.                                        *)
C7_NormalizerIdempotent ==
    pc = "renormalized" => df2 = df

(* C7 as amended: the Normalizer applied to its own output leaves every    *)
(* numeric and string field unchanged and returns empty Notes, so that the *)
(* out-of-range flag of a clamped row is lost.                             *)
C7_IdempotentUpToNotes ==
    pc = "renormalized" =>
        /\ Len(df2) = Len(df)
        /\ \A i \in 1..Len(df) :
            /\ \A f \in NumericFields \cup StringFields : df2[i][f] = df[i][f]
            /\ df2[i].Notes = <<>>

\* a row clamped from above 100000, flagged, and normalized again
C7_Witness ==
    /\ pc = "renormalized"
    /\ raw[1].LastMonthSoldQty = Num(SoldLimit + 1)
    /\ df[1].LastMonthSoldQty = SoldLimit
    /\ df[1].Notes # <<>>
    /\ df2[1].LastMonthSoldQty = SoldLimit

====
